---- MODULE Spec2Model ----
(***************************************************************************)
(* Model of awslabs/aws_api_mcp_server/core/aws/error_handler.py: the      *)
(* enrichment of an AWS CLI validation error message with the operation's  *)
(* documentation and with usage examples read from a JSON-lines file.      *)
(*                                                                         *)
(* A Python str is a sequence of one-character strings, so that split,     *)
(* the regular expressions and json.dumps are computed character by        *)
(* character.  A Python exception is a result record with ok = FALSE.      *)
(***************************************************************************)
EXTENDS Integers, Sequences, FiniteSets, TLC

VARIABLES ADD_DOCUMENTATION, ADD_EXAMPLES, pc, fn, cli_command, arg_error_message,
          error_message, parts, service_name, operation_name, examples_file,
          operation, calls, ret

vars == <<ADD_DOCUMENTATION, ADD_EXAMPLES, pc, fn, cli_command, arg_error_message,
          error_message, parts, service_name, operation_name, examples_file,
          operation, calls, ret>>

(***************************************************************************)
(* Bounds of the model.                                                    *)
(***************************************************************************)
\* a command line is made of at most MaxAtoms atoms (words and separators)
MaxAtoms == 6
\* lines of the examples file when its readers are called on their own
MaxLines == 3
\* arguments of an operation's argument table
MaxArgs == 3

(***************************************************************************)
(* Python values.                                                          *)
(***************************************************************************)
Ok(v) == [ok |-> TRUE, val |-> v, exc |-> "", why |-> ""]
Raise(e, w) == [ok |-> FALSE, val |-> <<>>, exc |-> e, why |-> w]

\* JSON values, as json.loads builds them and json.dumps takes them
JStr(s) == [t |-> "str", v |-> s]
JNum(n) == [t |-> "num", v |-> n]
JArr(a) == [t |-> "arr", v |-> a]
JObj(o) == [t |-> "obj", v |-> o]
JNull == [t |-> "null", v |-> <<>>]

WHITESPACE == {" ", "\t", "\n"}

\* the index of the first element of s from position i on that lies in set, or 0
RECURSIVE find_from(_, _, _)
find_from(s, i, set) ==
  IF i > Len(s) THEN 0
  ELSE IF s[i] \in set THEN i
  ELSE find_from(s, i + 1, set)

\* str.split(sep) for a one-character sep: every occurrence separates, so that
\* adjacent separators and a leading or trailing one give empty strings
RECURSIVE split(_, _)
split(s, sep) ==
  LET i == find_from(s, 1, {sep})
  IN IF i = 0 THEN <<s>>
     ELSE <<SubSeq(s, 1, i - 1)>> \o split(SubSeq(s, i + 1, Len(s)), sep)

\* str.strip()
RECURSIVE lstrip(_)
lstrip(s) ==
  IF s # <<>> /\ Head(s) \in WHITESPACE THEN lstrip(Tail(s)) ELSE s

RECURSIVE rstrip(_)
rstrip(s) ==
  IF s # <<>> /\ s[Len(s)] \in WHITESPACE THEN rstrip(SubSeq(s, 1, Len(s) - 1)) ELSE s

strip(s) == rstrip(lstrip(s))

\* re.sub(r'\s+', ' ', text)
RECURSIVE collapse_whitespace(_)
collapse_whitespace(s) ==
  IF s = <<>> THEN <<>>
  ELSE IF Head(s) \in WHITESPACE THEN <<" ">> \o collapse_whitespace(lstrip(s))
  ELSE <<Head(s)>> \o collapse_whitespace(Tail(s))

_clean_text(text) == strip(collapse_whitespace(text))

\* the position after the run of elements of set that starts at i
RECURSIVE skip_run(_, _, _)
skip_run(s, i, set) ==
  IF i <= Len(s) /\ s[i] \in set THEN skip_run(s, i + 1, set) ELSE i

DESCRIPTION_WORD == <<"D", "e", "s", "c", "r", "i", "p", "t", "i", "o", "n">>

\* a match of r'=+\s*Description\s*=+\s' that starts at i: the position after
\* it, or 0.  The classes of adjacent parts are disjoint, so the greedy match
\* is the only one.
heading_match(s, i) ==
  LET a == skip_run(s, i, {"="})
      b == skip_run(s, a, WHITESPACE)
      c == b + Len(DESCRIPTION_WORD)
      d == skip_run(s, c, WHITESPACE)
      e == skip_run(s, d, {"="})
  IN IF /\ a > i
        /\ c - 1 <= Len(s)
        /\ SubSeq(s, b, c - 1) = DESCRIPTION_WORD
        /\ e > d
        /\ e <= Len(s)
        /\ s[e] \in WHITESPACE
     THEN e + 1
     ELSE 0

\* re.sub(r'=+\s*Description\s*=+\s', '', description)
RECURSIVE remove_headings(_, _)
remove_headings(s, i) ==
  IF i > Len(s) THEN <<>>
  ELSE LET j == heading_match(s, i)
       IN IF j > 0 THEN remove_headings(s, j)
          ELSE <<s[i]>> \o remove_headings(s, i + 1)

_clean_description(description) == _clean_text(remove_headings(description, 1))

(***************************************************************************)
(* json.dumps.                                                             *)
(***************************************************************************)
DIGITS == <<"0", "1", "2", "3", "4", "5", "6", "7", "8", "9">>

RECURSIVE int_str(_)
int_str(n) ==
  IF n < 10 THEN <<DIGITS[n + 1]>> ELSE int_str(n \div 10) \o <<DIGITS[(n % 10) + 1]>>

json_escape_char(c) ==
  CASE c = "\"" -> <<"\\", "\"">>
    [] c = "\\" -> <<"\\", "\\">>
    [] c = "\n" -> <<"\\", "n">>
    [] c = "\t" -> <<"\\", "t">>
    [] OTHER -> <<c>>

RECURSIVE json_escape(_)
json_escape(s) ==
  IF s = <<>> THEN <<>> ELSE json_escape_char(Head(s)) \o json_escape(Tail(s))

json_string(s) == <<"\"">> \o json_escape(s) \o <<"\"">>

RECURSIVE spaces(_)
spaces(n) == IF n <= 0 THEN <<>> ELSE <<" ">> \o spaces(n - 1)

RECURSIVE join(_, _)
join(items, sep) ==
  IF items = <<>> THEN <<>>
  ELSE IF Len(items) = 1 THEN items[1]
  ELSE items[1] \o sep \o join(Tail(items), sep)

\* json.dumps(x, indent=indent) at nesting depth level; indent = -1 is
\* Python's indent=None (one line, separators ', ' and ': ')
RECURSIVE json_encode(_, _, _)
json_encode(x, indent, level) ==
  LET nl(k) == IF indent < 0 THEN <<>> ELSE <<"\n">> \o spaces(indent * k)
      item_sep == IF indent < 0 THEN <<",", " ">> ELSE <<",">> \o nl(level + 1)
      member(kv) == json_string(kv[1]) \o <<":", " ">> \o json_encode(kv[2], indent, level + 1)
  IN CASE x.t = "str" -> json_string(x.v)
       [] x.t = "num" -> int_str(x.v)
       [] x.t = "null" -> <<"n", "u", "l", "l">>
       [] x.t = "arr" ->
            IF x.v = <<>> THEN <<"[", "]">>
            ELSE <<"[">> \o nl(level + 1)
                 \o join([i \in 1..Len(x.v) |-> json_encode(x.v[i], indent, level + 1)], item_sep)
                 \o nl(level) \o <<"]">>
       [] x.t = "obj" ->
            IF x.v = <<>> THEN <<"{", "}">>
            ELSE <<"{">> \o nl(level + 1)
                 \o join([i \in 1..Len(x.v) |-> member(x.v[i])], item_sep)
                 \o nl(level) \o <<"}">>

json_dumps(x, indent) == json_encode(x, indent, 0)

\* Python truthiness of a JSON value (`not examples`)
truthy(x) ==
  CASE x.t = "null" -> FALSE
    [] x.t = "num" -> x.v # 0
    [] OTHER -> x.v # <<>>

(***************************************************************************)
(* dict: an insertion-ordered sequence of <<key, value>> pairs.            *)
(***************************************************************************)
dict_has(d, k) == \E i \in 1..Len(d) : d[i][1] = k

dict_get(d, k) == d[CHOOSE i \in 1..Len(d) : d[i][1] = k][2]

\* d[k] = v: a present key keeps its place and takes the new value
dict_set(d, k, v) ==
  IF dict_has(d, k)
  THEN [i \in 1..Len(d) |-> IF d[i][1] = k THEN <<k, v>> ELSE d[i]]
  ELSE Append(d, <<k, v>>)

(***************************************************************************)
(* The examples file: EXAMPLES_FILE either does not exist (open raises) or *)
(* holds a sequence of lines.  A line is its text; json_loads gives, for   *)
(* each text the model draws lines from, what json.loads does with it.     *)
(***************************************************************************)
KEY_COMMAND == <<"c", "o", "m", "m", "a", "n", "d">>
KEY_EXAMPLES == <<"e", "x", "a", "m", "p", "l", "e", "s">>
AWS_S_C == <<"a", "w", "s", " ", "s", " ", "c">>
AWS_C_S == <<"a", "w", "s", " ", "c", " ", "s">>
EX1 == JArr(<<JStr(<<"e", "x", "1">>)>>)
EX2 == JArr(<<JStr(<<"e", "x", "2">>)>>)

LINE_SC_EX1 == "{\"command\": \"aws s c\", \"examples\": [\"ex1\"]}"
LINE_SC_EX2 == "{\"command\": \"aws s c\", \"examples\": [\"ex2\"]}"
LINE_SC_EMPTY == "{\"command\": \"aws s c\", \"examples\": []}"
LINE_CS_EX1 == "{\"command\": \"aws c s\", \"examples\": [\"ex1\"]}"
LINE_TRUNCATED == "{\"command\": \"aws s c\""
LINE_BLANK == ""
LINE_ARRAY == "[1]"
LINE_NO_COMMAND == "{\"examples\": [\"ex1\"]}"
LINE_NO_EXAMPLES == "{\"command\": \"aws c s\"}"

Lines == {LINE_SC_EX1, LINE_SC_EX2, LINE_SC_EMPTY, LINE_CS_EX1, LINE_TRUNCATED,
          LINE_BLANK, LINE_ARRAY, LINE_NO_COMMAND, LINE_NO_EXAMPLES}

Record(command, examples) == JObj(<< <<KEY_COMMAND, JStr(command)>>, <<KEY_EXAMPLES, examples>> >>)

\* json.loads(line): the value, or JSONDecodeError
json_loads(line) ==
  CASE line = LINE_SC_EX1 -> Ok(Record(AWS_S_C, EX1))
    [] line = LINE_SC_EX2 -> Ok(Record(AWS_S_C, EX2))
    [] line = LINE_SC_EMPTY -> Ok(Record(AWS_S_C, JArr(<<>>)))
    [] line = LINE_CS_EX1 -> Ok(Record(AWS_C_S, EX1))
    [] line = LINE_ARRAY -> Ok(JArr(<<JNum(1)>>))
    [] line = LINE_NO_COMMAND -> Ok(JObj(<< <<KEY_EXAMPLES, EX1>> >>))
    [] line = LINE_NO_EXAMPLES -> Ok(JObj(<< <<KEY_COMMAND, JStr(AWS_C_S)>> >>))
    [] OTHER -> Raise("JSONDecodeError", line)

\* x[key] for a str key: only a dict that holds the key has one
py_getitem(x, key) ==
  IF x.t # "obj" THEN Raise("TypeError", "indices")
  ELSE IF ~dict_has(x.v, key) THEN Raise("KeyError", "key")
  ELSE Ok(dict_get(x.v, key))

File(lines) == [exists |-> TRUE, lines |-> lines]
NoFile == [exists |-> FALSE, lines |-> <<>>]

\* the loop of build_examplelookup from line i on: a JSONDecodeError skips the
\* line, any other exception leaves the function
RECURSIVE scan_lines(_, _, _)
scan_lines(lines, i, examples_lookup) ==
  IF i > Len(lines) THEN Ok(examples_lookup)
  ELSE LET api_example == json_loads(lines[i])
           examples == py_getitem(api_example.val, KEY_EXAMPLES)
           command == py_getitem(api_example.val, KEY_COMMAND)
       IN IF ~api_example.ok THEN scan_lines(lines, i + 1, examples_lookup)
          ELSE IF ~examples.ok THEN examples
          ELSE IF ~command.ok THEN command
          ELSE scan_lines(lines, i + 1, dict_set(examples_lookup, command.val.v, examples.val))

\* a scan that gives up at the first line that is not JSON
RECURSIVE scan_lines_abort(_, _, _)
scan_lines_abort(lines, i, examples_lookup) ==
  IF i > Len(lines) THEN Ok(examples_lookup)
  ELSE LET api_example == json_loads(lines[i])
           examples == py_getitem(api_example.val, KEY_EXAMPLES)
           command == py_getitem(api_example.val, KEY_COMMAND)
       IN IF ~api_example.ok THEN Ok(examples_lookup)
          ELSE IF ~examples.ok THEN examples
          ELSE IF ~command.ok THEN command
          ELSE scan_lines_abort(lines, i + 1, dict_set(examples_lookup, command.val.v, examples.val))

build_examplelookup_abort(f) ==
  IF ~f.exists THEN Raise("FileNotFoundError", "EXAMPLES_FILE")
  ELSE scan_lines_abort(f.lines, 1, <<>>)

build_examplelookup(f) ==
  IF ~f.exists THEN Raise("FileNotFoundError", "EXAMPLES_FILE")
  ELSE scan_lines(f.lines, 1, <<>>)

lookup_key(service, op) == <<"a", "w", "s", " ">> \o service \o <<" ">> \o op

\* get_examples without the `if not examples` test
get_examples_unchecked(f, service, op) ==
  LET examples_lookup == build_examplelookup(f)
      key == lookup_key(service, op)
  IN IF ~examples_lookup.ok THEN Raise("Exception", "Cannot load API examples file")
     ELSE IF ~dict_has(examples_lookup.val, key) THEN Ok(JNull)
     ELSE Ok(dict_get(examples_lookup.val, key))

get_examples(f, service, op) ==
  LET examples_lookup == build_examplelookup(f)
      key == lookup_key(service, op)
  IN IF ~examples_lookup.ok THEN Raise("Exception", "Cannot load API examples file")
     ELSE IF ~dict_has(examples_lookup.val, key) THEN Raise("Exception", "No examples found")
     ELSE IF ~truthy(dict_get(examples_lookup.val, key)) THEN Raise("Exception", "No examples found")
     ELSE Ok(dict_get(examples_lookup.val, key))

EXAMPLES_LEAD_IN == <<" ", "H", "e", "r", "e", " ", "a", "r", "e", " ", "e", "x", "a", "m", "p", "l", "e", "s", " ", "f", "o", "r", " ", "t", "h", "e", " ", "c", "o", "r", "r", "e", "c", "t", " ", "u", "s", "a", "g", "e", " ", "o", "f", " ", "t", "h", "i", "s", " ", "c", "o", "m", "m", "a", "n", "d", ":", " ">>

\* add_examples that writes the lead-in before it knows the lookup succeeded
add_examples_eager(f, service, op, message) ==
  LET examples == get_examples(f, service, op)
  IN IF examples.ok THEN message \o EXAMPLES_LEAD_IN \o json_dumps(examples.val, -1)
     ELSE message \o EXAMPLES_LEAD_IN

add_examples(f, service, op, message) ==
  LET examples == get_examples(f, service, op)
  IN IF examples.ok THEN message \o EXAMPLES_LEAD_IN \o json_dumps(examples.val, -1)
     ELSE message

(***************************************************************************)
(* The awscli objects the module reads.  An argument is its name, its      *)
(* group_name (<<>> for None), its _UNDOCUMENTED flag and the text that    *)
(* doc_option writes for it; an operation is the text doc_description      *)
(* writes, its arg_table in declaration order, and whether building its    *)
(* help command raises.                                                    *)
(***************************************************************************)
Arg(name, group_name, undocumented, doc) ==
  [name |-> name, group_name |-> group_name, undocumented |-> undocumented, doc |-> doc]

Operation(description, arg_table, help_raises) ==
  [description |-> description, arg_table |-> arg_table, help_raises |-> help_raises]

CLI_INPUT_JSON == <<"c", "l", "i", "-", "i", "n", "p", "u", "t", "-", "j", "s", "o", "n">>
GENERATE_CLI_SKELETON == <<"g", "e", "n", "e", "r", "a", "t", "e", "-", "c", "l", "i", "-", "s", "k", "e", "l", "e", "t", "o", "n">>
IGNORED_ARGUMENTS == {CLI_INPUT_JSON, GENERATE_CLI_SKELETON}

GROUP_FLAG == <<"f", "l", "a", "g">>
GROUP_DRY_RUN == <<"d", "r", "y", "_", "r", "u", "n">>

ARG_FLAG == Arg(<<"f", "l", "a", "g">>, GROUP_FLAG, FALSE,
  <<"-", "-", "f", "l", "a", "g", " ", "|", " ", "-", "-", "n", "o", "-", "f", "l", "a", "g", "\n", " ", " ", "T", "u", "r", "n", " ", " ", "o", "n", "\n">>)
ARG_NO_FLAG == Arg(<<"n", "o", "-", "f", "l", "a", "g">>, GROUP_FLAG, FALSE,
  <<"-", "-", "f", "l", "a", "g", " ", "|", " ", "-", "-", "n", "o", "-", "f", "l", "a", "g", "\n", " ", " ", "T", "u", "r", "n", " ", " ", "o", "f", "f", "\n">>)
ARG_OLD_FLAG == Arg(<<"o", "l", "d", "-", "f", "l", "a", "g">>, GROUP_FLAG, TRUE,
  <<"-", "-", "o", "l", "d", "-", "f", "l", "a", "g", "\n", " ", " ", "O", "l", "d", "\n">>)
ARG_NAME == Arg(<<"n", "a", "m", "e">>, <<>>, FALSE,
  <<"-", "-", "n", "a", "m", "e", " ", "(", "s", "t", "r", "i", "n", "g", ")", "\n", "\n", " ", " ", "T", "h", "e", "\t", "n", "a", "m", "e", "\n">>)
ARG_DRY == Arg(<<"d", "r", "y">>, GROUP_DRY_RUN, FALSE,
  <<"-", "-", "d", "r", "y", "\n", " ", " ", "T", "r", "y", "\n">>)
ARG_DEBUG == Arg(<<"d", "e", "b", "u", "g">>, <<>>, TRUE,
  <<"-", "-", "d", "e", "b", "u", "g", "\n">>)
ARG_CLI_INPUT_JSON == Arg(CLI_INPUT_JSON, <<>>, FALSE,
  <<"-", "-", "c", "l", "i", "-", "i", "n", "p", "u", "t", "-", "j", "s", "o", "n", "\n">>)
ARG_GENERATE_CLI_SKELETON == Arg(GENERATE_CLI_SKELETON, <<>>, FALSE,
  <<"-", "-", "g", "e", "n", "e", "r", "a", "t", "e", "-", "c", "l", "i", "-", "s", "k", "e", "l", "e", "t", "o", "n", "\n">>)

Args == {ARG_FLAG, ARG_NO_FLAG, ARG_OLD_FLAG, ARG_NAME, ARG_DRY, ARG_DEBUG,
         ARG_CLI_INPUT_JSON, ARG_GENERATE_CLI_SKELETON}

DESCRIPTION_COPY == <<"=", "=", "=", "\n", "D", "e", "s", "c", "r", "i", "p", "t", "i", "o", "n", "\n", "=", "=", "=", "\n", "\n", "C", "o", "p", "i", "e", "s", " ", " ", "a", " ", "f", "i", "l", "e", ".", "\n", "\n">>
DESCRIPTION_SYNC == <<"=", "=", "=", " ", "D", "e", "s", "c", "r", "i", "p", "t", "i", "o", "n", " ", "=", "=", "=", "\n", "S", "y", "n", "c", "\n">>

\* the loop of _generate_operation_document from argument i on, one entry per
\* argument: the seen groups are not recorded and the key is the argument's name
RECURSIVE document_params_ungrouped(_, _, _, _)
document_params_ungrouped(arg_table, i, params, seen_arg_groups) ==
  IF i > Len(arg_table) THEN params
  ELSE LET arg == arg_table[i]
       IN IF arg.undocumented \/ arg.name \in IGNORED_ARGUMENTS
          THEN document_params_ungrouped(arg_table, i + 1, params, seen_arg_groups)
          ELSE document_params_ungrouped(arg_table, i + 1,
                 dict_set(params, arg.name, _clean_text(strip(arg.doc))), seen_arg_groups)

\* the loop of _generate_operation_document from argument i on
RECURSIVE document_params(_, _, _, _)
document_params(arg_table, i, params, seen_arg_groups) ==
  IF i > Len(arg_table) THEN params
  ELSE LET arg == arg_table[i]
           key == IF arg.group_name # <<>> THEN arg.group_name ELSE arg.name
       IN IF arg.undocumented \/ arg.name \in IGNORED_ARGUMENTS
          THEN document_params(arg_table, i + 1, params, seen_arg_groups)
          ELSE IF arg.group_name \in seen_arg_groups
          THEN document_params(arg_table, i + 1, params, seen_arg_groups)
          ELSE document_params(arg_table, i + 1,
                 dict_set(params, key, _clean_text(strip(arg.doc))),
                 IF arg.group_name # <<>> THEN seen_arg_groups \cup {arg.group_name}
                 ELSE seen_arg_groups)

_generate_operation_document_ungrouped(op) ==
  IF op.help_raises THEN Raise("Exception", "create_help_command")
  ELSE Ok(<<strip(_clean_description(op.description)),
            document_params_ungrouped(op.arg_table, 1, <<>>, {})>>)

_generate_operation_document(op) ==
  IF op.help_raises THEN Raise("Exception", "create_help_command")
  ELSE Ok(<<strip(_clean_description(op.description)),
            document_params(op.arg_table, 1, <<>>, {})>>)

\* driver._get_command_table(): service name -> command.  A command is its
\* class and its operation table (subcommand_table of a BasicCommand,
\* _get_command_table() of a ServiceCommand).
NONE == [cls |-> "NoneType", table |-> <<>>]

DRIVER_COMMAND_TABLE ==
  << <<(<<"s">>), [cls |-> "ServiceCommand", table |->
         << <<(<<"c">>), Operation(DESCRIPTION_COPY,
                           <<ARG_FLAG, ARG_NO_FLAG, ARG_NAME, ARG_CLI_INPUT_JSON>>, FALSE)>> >>]>>,
     <<(<<"c">>), [cls |-> "BasicCommand", table |->
         << <<(<<"s">>), Operation(DESCRIPTION_SYNC, <<>>, FALSE)>>,
            <<(<<"c">>), Operation(DESCRIPTION_SYNC, <<ARG_NAME>>, TRUE)>> >>]>>,
     <<(<<"s", "s">>), [cls |-> "CLICommand", table |-> <<>>]>> >>

get_api_schema(service, op) ==
  LET command == IF dict_has(DRIVER_COMMAND_TABLE, service)
                 THEN dict_get(DRIVER_COMMAND_TABLE, service) ELSE NONE
  IN IF command.cls \notin {"BasicCommand", "ServiceCommand"}
     THEN Raise("UnboundLocalError", "command_table")
     ELSE IF ~dict_has(command.table, op) THEN Raise("KeyError", "operation_name")
     ELSE _generate_operation_document(dict_get(command.table, op))

KEY_DOCUMENTATION == <<"d", "o", "c", "u", "m", "e", "n", "t", "a", "t", "i", "o", "n">>
KEY_SERVICE == <<"s", "e", "r", "v", "i", "c", "e">>
KEY_OPERATION == <<"o", "p", "e", "r", "a", "t", "i", "o", "n">>
KEY_DESCRIPTION == <<"d", "e", "s", "c", "r", "i", "p", "t", "i", "o", "n">>
KEY_PARAMETERS == <<"p", "a", "r", "a", "m", "e", "t", "e", "r", "s">>

helper_documentation(service, op, description, params) ==
  JObj(<< <<KEY_DOCUMENTATION, JObj(<<
            <<KEY_SERVICE, JStr(service)>>,
            <<KEY_OPERATION, JStr(op)>>,
            <<KEY_DESCRIPTION, JStr(description)>>,
            <<KEY_PARAMETERS, JObj([i \in 1..Len(params) |-> <<params[i][1], JStr(params[i][2])>>])>> >>)>> >>)

add_documentation(service, op, message) ==
  LET schema == get_api_schema(service, op)
  IN IF schema.ok
     THEN message \o <<"\n">>
          \o json_dumps(helper_documentation(service, op, schema.val[1], schema.val[2]), 4)
     ELSE message

(***************************************************************************)
(* The inputs the calls are given.                                         *)
(***************************************************************************)
AWS == <<"a", "w", "s">>

Atoms == {AWS, <<"s">>, <<"c">>, <<" ">>, <<"\t">>}

RECURSIVE flatten(_)
flatten(ss) == IF ss = <<>> THEN <<>> ELSE Head(ss) \o flatten(Tail(ss))

SeqsUpTo(S, n) == UNION {[1..k -> S] : k \in 0..n}

Commands == {flatten(atoms) : atoms \in SeqsUpTo(Atoms, MaxAtoms)}

Messages == {<<"E">>, <<"E", "2">>}

FilesUpTo(n) == {NoFile} \cup {File(lines) : lines \in SeqsUpTo(Lines, n)}

\* what EXAMPLES_FILE may hold when a with_api_schema call opens it: no file, no
\* line, a record of "aws s c" alone, after a line that is not JSON and before
\* a line that is not an object, an empty payload, another command's record
FilesAtEnrichment ==
  {NoFile, File(<<>>), File(<<LINE_SC_EX1>>), File(<<LINE_TRUNCATED, LINE_SC_EX1>>),
   File(<<LINE_SC_EX1, LINE_ARRAY>>), File(<<LINE_SC_EMPTY>>), File(<<LINE_CS_EX1>>)}

Names == {<<"s">>, <<"c">>}

\* arg_table is a dict keyed by argument name: no name occurs twice
ArgTables ==
  {t \in SeqsUpTo(Args, MaxArgs) : \A i, j \in 1..Len(t) : t[i].name = t[j].name => i = j}

Operations == {Operation(d, t, FALSE) : d \in {DESCRIPTION_COPY, DESCRIPTION_SYNC}, t \in ArgTables}

\* the outcome of a call: none yet, an exception raised (its name in exc), or a
\* value returned, which is held in the field of its type: the message of
\* with_api_schema, the examples of get_examples, the lookup of
\* build_examplelookup, the (description, params) of _generate_operation_document
NoOutcome ==
  [kind |-> "none", exc |-> "", message |-> <<>>, examples |-> JNull, lookup |-> <<>>,
   document |-> <<(<<>>), (<<>>)>>]
Raised(e) == [NoOutcome EXCEPT !.kind = "raise", !.exc = e]
ReturnMessage(m) == [NoOutcome EXCEPT !.kind = "return", !.message = m]
ReturnExamples(r) ==
  IF r.ok THEN [NoOutcome EXCEPT !.kind = "return", !.examples = r.val] ELSE Raised(r.exc)
ReturnLookup(r) ==
  IF r.ok THEN [NoOutcome EXCEPT !.kind = "return", !.lookup = r.val] ELSE Raised(r.exc)
ReturnDocument(r) ==
  IF r.ok THEN [NoOutcome EXCEPT !.kind = "return", !.document = r.val] ELSE Raised(r.exc)

(***************************************************************************)
(* with_api_schema.                                                        *)
(***************************************************************************)
\* the test of line 137, with the `not` left out
helper_disabled_inverted(documentation, examples) == documentation \/ examples

helper_disabled(documentation, examples) == ~(documentation \/ examples)

\* the test of line 142 as a prefix test
is_aws_cli_prefix(p) == Len(p[1]) >= Len(AWS) /\ SubSeq(p[1], 1, Len(AWS)) = AWS

is_aws_cli(p) == p[1] = AWS

\* the two steps in the other order
next_pc_swapped(p) ==
  CASE p = "L146" -> "L152"
    [] p = "L152" -> "L149"
    [] p = "L149" -> "L155"

\* the statement that follows the one at line p
next_pc(p) ==
  CASE p = "L146" -> "L149"
    [] p = "L149" -> "L152"
    [] p = "L152" -> "L155"

\* lines 135-147: the gates and the split
with_api_schema(cmd, message) ==
  /\ pc = "idle"
  /\ fn' = "with_api_schema"
  /\ cli_command' = cmd
  /\ arg_error_message' = message
  /\ error_message' = message
  /\ IF helper_disabled(ADD_DOCUMENTATION, ADD_EXAMPLES)
     THEN /\ ret' = ReturnMessage(message)
          /\ pc' = "done"
          /\ UNCHANGED <<parts, service_name, operation_name>>
     ELSE LET p == split(cmd, " ")
          IN /\ parts' = p
             /\ IF ~is_aws_cli(p)
                THEN /\ ret' = ReturnMessage(message)
                     /\ pc' = "done"
                     /\ UNCHANGED <<service_name, operation_name>>
                ELSE IF Len(p) < 3
                THEN /\ ret' = Raised("IndexError")
                     /\ pc' = "raised"
                     /\ UNCHANGED <<service_name, operation_name>>
                ELSE /\ service_name' = p[2]
                     /\ operation_name' = p[3]
                     /\ pc' = next_pc("L146")
                     /\ UNCHANGED ret
  /\ UNCHANGED <<ADD_DOCUMENTATION, ADD_EXAMPLES, examples_file, operation, calls>>

\* lines 149-150
documentation_step ==
  /\ pc = "L149"
  /\ IF ADD_DOCUMENTATION
     THEN /\ error_message' = add_documentation(service_name, operation_name, error_message)
          /\ calls' = Append(calls, "add_documentation")
     ELSE UNCHANGED <<error_message, calls>>
  /\ pc' = next_pc("L149")
  /\ UNCHANGED <<ADD_DOCUMENTATION, ADD_EXAMPLES, fn, cli_command, arg_error_message, parts,
                 service_name, operation_name, examples_file, operation, ret>>

\* lines 152-153; examples_file is what EXAMPLES_FILE holds when it is opened
examples_step ==
  /\ pc = "L152"
  /\ IF ADD_EXAMPLES
     THEN \E f \in FilesAtEnrichment :
            /\ examples_file' = f
            /\ error_message' = add_examples(f, service_name, operation_name, error_message)
            /\ calls' = Append(calls, "add_examples")
     ELSE UNCHANGED <<error_message, calls, examples_file>>
  /\ pc' = next_pc("L152")
  /\ UNCHANGED <<ADD_DOCUMENTATION, ADD_EXAMPLES, fn, cli_command, arg_error_message, parts,
                 service_name, operation_name, operation, ret>>

\* line 155
return_step ==
  /\ pc = "L155"
  /\ ret' = ReturnMessage(error_message)
  /\ pc' = "done"
  /\ UNCHANGED <<ADD_DOCUMENTATION, ADD_EXAMPLES, fn, cli_command, arg_error_message,
                 error_message, parts, service_name, operation_name, examples_file,
                 operation, calls>>

(***************************************************************************)
(* The module's other functions, called on their own.                      *)
(***************************************************************************)
call_build_examplelookup(f) ==
  /\ pc = "idle"
  /\ fn' = "build_examplelookup"
  /\ examples_file' = f
  /\ ret' = ReturnLookup(build_examplelookup(f))
  /\ pc' = "done"
  /\ UNCHANGED <<ADD_DOCUMENTATION, ADD_EXAMPLES, cli_command, arg_error_message,
                 error_message, parts, service_name, operation_name, operation, calls>>

call_get_examples(f, service, op) ==
  /\ pc = "idle"
  /\ fn' = "get_examples"
  /\ examples_file' = f
  /\ service_name' = service
  /\ operation_name' = op
  /\ ret' = ReturnExamples(get_examples(f, service, op))
  /\ pc' = "done"
  /\ UNCHANGED <<ADD_DOCUMENTATION, ADD_EXAMPLES, cli_command, arg_error_message,
                 error_message, parts, operation, calls>>

call_generate_operation_document(op) ==
  /\ pc = "idle"
  /\ fn' = "_generate_operation_document"
  /\ operation' = op
  /\ ret' = ReturnDocument(_generate_operation_document(op))
  /\ pc' = "done"
  /\ UNCHANGED <<ADD_DOCUMENTATION, ADD_EXAMPLES, cli_command, arg_error_message,
                 error_message, parts, service_name, operation_name, examples_file, calls>>

Init ==
  /\ ADD_DOCUMENTATION \in BOOLEAN
  /\ ADD_EXAMPLES \in BOOLEAN
  /\ pc = "idle"
  /\ fn = ""
  /\ cli_command = <<>>
  /\ arg_error_message = <<>>
  /\ error_message = <<>>
  /\ parts = <<>>
  /\ service_name = <<>>
  /\ operation_name = <<>>
  /\ examples_file = [exists |-> FALSE, lines |-> <<>>]
  /\ operation = Operation(<<>>, <<>>, FALSE)
  /\ calls = <<>>
  /\ ret = NoOutcome

\* a call starts only when no call is running (pc = "idle"), which is tested
\* before the inputs are drawn
Next ==
  \/ pc = "idle" /\ \E cmd \in Commands, message \in Messages : with_api_schema(cmd, message)
  \/ documentation_step
  \/ examples_step
  \/ return_step
  \/ pc = "idle" /\ \E f \in FilesUpTo(MaxLines) : call_build_examplelookup(f)
  \/ pc = "idle" /\ \E f \in FilesUpTo(MaxLines), service \in Names, op \in Names :
                      call_get_examples(f, service, op)
  \/ pc = "idle" /\ \E op \in Operations : call_generate_operation_document(op)

Spec == Init /\ [][Next]_vars

(***************************************************************************)
(* Notions the claims are stated with.                                     *)
(***************************************************************************)
IsPrefix(p, s) == Len(p) <= Len(s) /\ SubSeq(s, 1, Len(p)) = p

\* the whitespace-delimited tokens of s: its maximal runs of non-whitespace
RECURSIVE tokens(_)
tokens(s) ==
  LET a == skip_run(s, 1, WHITESPACE)
      b == find_from(s, a, WHITESPACE)
  IN IF a > Len(s) THEN <<>>
     ELSE IF b = 0 THEN <<SubSeq(s, a, Len(s))>>
     ELSE <<SubSeq(s, a, b - 1)>> \o tokens(SubSeq(s, b, Len(s)))

\* what precedes the first whitespace of s (empty when s starts with whitespace)
first_token(s) ==
  LET i == find_from(s, 1, WHITESPACE)
  IN IF i = 0 THEN s ELSE SubSeq(s, 1, i - 1)

\* a with_api_schema call that has returned
Returned == fn = "with_api_schema" /\ pc = "done" /\ ret.kind = "return"

\* a with_api_schema call that went past both gates
PastGates ==
  /\ fn = "with_api_schema"
  /\ pc \in {"L149", "L152", "L155", "done"}
  /\ Len(parts) >= 3
  /\ parts[1] = AWS

\* line i of lines is a record: an object with both fields
is_record(line) ==
  /\ json_loads(line).ok
  /\ json_loads(line).val.t = "obj"
  /\ dict_has(json_loads(line).val.v, KEY_COMMAND)
  /\ dict_has(json_loads(line).val.v, KEY_EXAMPLES)

record_command(line) == dict_get(json_loads(line).val.v, KEY_COMMAND).v
record_examples(line) == dict_get(json_loads(line).val.v, KEY_EXAMPLES)

\* a line json.loads takes that is not a record
is_broken(line) == json_loads(line).ok /\ ~is_record(line)

\* the lines of f that are records of the command "aws {service} {op}"
stored_at(f, service, op) ==
  {i \in 1..Len(f.lines) :
     is_record(f.lines[i])
     /\ record_command(f.lines[i]) = <<"a", "w", "s", " ">> \o service \o <<" ">> \o op}

last_of(S) == CHOOSE i \in S : \A j \in S : j <= i

\* the payload the file stores for the command: that of its last record
stored_examples(f, service, op) == record_examples(f.lines[last_of(stored_at(f, service, op))])

unreadable(f) == ~f.exists \/ \E i \in 1..Len(f.lines) : is_broken(f.lines[i])

\* the documentation step cannot succeed for service and op
schema_unavailable(service, op) ==
  \/ ~dict_has(DRIVER_COMMAND_TABLE, service)
  \/ /\ dict_has(DRIVER_COMMAND_TABLE, service)
     /\ \/ dict_get(DRIVER_COMMAND_TABLE, service).cls \notin {"BasicCommand", "ServiceCommand"}
        \/ ~dict_has(dict_get(DRIVER_COMMAND_TABLE, service).table, op)
        \/ dict_get(dict_get(DRIVER_COMMAND_TABLE, service).table, op).help_raises

\* the examples step cannot succeed for service and op on file f
examples_unavailable(f, service, op) ==
  \/ unreadable(f)
  \/ stored_at(f, service, op) = {}
  \/ ~truthy(stored_examples(f, service, op))

(***************************************************************************)
(* The claims.                                                             *)
(***************************************************************************)

\* C1: with_api_schema is total: whatever the command, the message, the flags
\* and the outcome of the sub-steps, the call returns a string and no
\* exception reaches the caller; a command of fewer than 3 tokens disables
\* enrichment.
C1_Total ==
  fn = "with_api_schema" =>
    /\ pc # "raised"
    /\ ret.kind # "raise"

\* C2: enrichment is additive and fails closed: a returned string has the
\* original error_message as a prefix, and when every enabled step fails the
\* returned string is the original error_message.
C2_AdditiveFailsClosed ==
  Returned =>
    /\ IsPrefix(arg_error_message, ret.message)
    /\ ( /\ PastGates
         /\ ADD_DOCUMENTATION => schema_unavailable(service_name, operation_name)
         /\ ADD_EXAMPLES => examples_unavailable(examples_file, service_name, operation_name)
       ) => ret.message = arg_error_message

C2_Witness ==
  /\ Returned
  /\ PastGates
  /\ ADD_DOCUMENTATION
  /\ ADD_EXAMPLES
  /\ schema_unavailable(service_name, operation_name)
  /\ examples_file.exists
  /\ examples_file.lines # <<>>
  /\ examples_unavailable(examples_file, service_name, operation_name)
  /\ ret.message = arg_error_message

\* C3: get_examples(service, operation) returns exactly the payload the file
\* stores under "aws {service} {operation}" (the line
\* {"command": "aws s c", "examples": ["ex1"]} makes get_examples("s", "c")
\* return ["ex1"]), and it raises when the key is absent, when the stored
\* payload is empty and when the file cannot be opened.
C3_GetExamples ==
  (fn = "get_examples" /\ pc = "done") =>
    LET f == examples_file
        stored == stored_at(f, service_name, operation_name)
    IN /\ ret.kind = "return" =>
            /\ stored # {}
            /\ ret.examples = stored_examples(f, service_name, operation_name)
       /\ (~unreadable(f) /\ stored # {}
            /\ truthy(stored_examples(f, service_name, operation_name))) =>
            /\ ret.kind = "return"
            /\ ret.examples = stored_examples(f, service_name, operation_name)
       /\ ~f.exists => ret.kind = "raise"
       /\ stored = {} => ret.kind = "raise"
       /\ (stored # {} /\ ~truthy(stored_examples(f, service_name, operation_name))) =>
            ret.kind = "raise"
       /\ (f = File(<<LINE_SC_EX1>>) /\ service_name = <<"s">> /\ operation_name = <<"c">>) =>
            (ret.kind = "return" /\ ret.examples = EX1)

C3_Witness ==
  /\ fn = "get_examples"
  /\ pc = "done"
  /\ examples_file = File(<<LINE_SC_EX1, LINE_CS_EX1, LINE_SC_EX2>>)
  /\ service_name = <<"s">>
  /\ operation_name = <<"c">>
  /\ ret.kind = "return"
  /\ ret.examples = EX2

\* the lines of a file that json.loads takes
parseable(lines) == SelectSeq(lines, LAMBDA line : json_loads(line).ok)

\* C4: a line that is not JSON is skipped without aborting the scan: what
\* build_examplelookup builds is what it builds from the file with every
\* such line removed, and so is what get_examples finds.
C4_BadLineSkipped ==
  /\ (fn = "build_examplelookup" /\ pc = "done" /\ examples_file.exists) =>
       ret = ReturnLookup(build_examplelookup(File(parseable(examples_file.lines))))
  /\ (fn = "get_examples" /\ pc = "done" /\ examples_file.exists) =>
       ret = ReturnExamples(get_examples(File(parseable(examples_file.lines)),
                                  service_name, operation_name))

C4_Witness ==
  /\ fn = "get_examples"
  /\ pc = "done"
  /\ examples_file = File(<<LINE_TRUNCATED, LINE_SC_EX1, LINE_BLANK>>)
  /\ service_name = <<"s">>
  /\ operation_name = <<"c">>
  /\ ret.kind = "return"
  /\ ret.examples = EX1

\* C5: with both flags disabled with_api_schema returns error_message
\* unchanged, whatever the command and the message, without splitting the
\* command and without schema extraction or example lookup.
C5_Disabled ==
  (fn = "with_api_schema" /\ ~ADD_DOCUMENTATION /\ ~ADD_EXAMPLES) =>
    /\ pc = "done"
    /\ ret.kind = "return"
    /\ ret.message = arg_error_message
    /\ parts = <<>>
    /\ calls = <<>>

C5_Witness ==
  /\ fn = "with_api_schema"
  /\ ~ADD_DOCUMENTATION
  /\ ~ADD_EXAMPLES
  /\ cli_command = AWS
  /\ pc = "done"
  /\ ret.message = arg_error_message

\* C6: a command whose first token is not 'aws' (the empty command, leading
\* whitespace, a first token that only starts with 'aws') makes
\* with_api_schema return error_message unchanged, with no schema extraction
\* and no example lookup.
C6_NotAws ==
  (fn = "with_api_schema" /\ first_token(cli_command) # AWS) =>
    /\ pc = "done"
    /\ ret.kind = "return"
    /\ ret.message = arg_error_message
    /\ calls = <<>>

C6_Witness ==
  /\ fn = "with_api_schema"
  /\ ADD_EXAMPLES
  /\ cli_command = <<"a", "w", "s", "s", " ", "s", " ", "c">>
  /\ pc = "done"
  /\ ret.message = arg_error_message
  /\ calls = <<>>

\* what the documentation step appends for service and op
documentation_block(service, op) ==
  IF get_api_schema(service, op).ok
  THEN <<"\n">> \o json_dumps(helper_documentation(service, op,
                     get_api_schema(service, op).val[1], get_api_schema(service, op).val[2]), 4)
  ELSE <<>>

\* what the examples step appends for service and op on file f
examples_block(f, service, op) ==
  IF get_examples(f, service, op).ok
  THEN EXAMPLES_LEAD_IN \o json_dumps(get_examples(f, service, op).val, -1)
  ELSE <<>>

retained(t) == {i \in 1..Len(t) : ~t[i].undocumented /\ t[i].name \notin IGNORED_ARGUMENTS}

entries_of(params, key) == {i \in 1..Len(params) : params[i][1] = key}

first_of(S) == CHOOSE i \in S : \A j \in S : i <= j

\* C8: in _generate_operation_document the retained arguments of one group
\* yield exactly one entry, keyed by the group name and rendered from the
\* first retained member; a retained ungrouped argument yields one entry
\* keyed by its name; undocumented and ignored arguments yield none.
C8_OneEntryPerGroup ==
  (fn = "_generate_operation_document" /\ pc = "done") =>
    LET t == operation.arg_table
        params == ret.document[2]
        groups == {t[i].group_name : i \in {j \in retained(t) : t[j].group_name # <<>>}}
        ungrouped == {i \in retained(t) : t[i].group_name = <<>>}
        members(g) == {i \in retained(t) : t[i].group_name = g}
    IN /\ ret.kind = "return"
       /\ \A g \in groups :
            /\ Cardinality(entries_of(params, g)) = 1
            /\ dict_get(params, g) = _clean_text(strip(t[first_of(members(g))].doc))
       /\ \A i \in ungrouped :
            /\ Cardinality(entries_of(params, t[i].name)) = 1
            /\ dict_get(params, t[i].name) = _clean_text(strip(t[i].doc))
       /\ Len(params) = Cardinality(groups) + Cardinality(ungrouped)

C8_Witness ==
  /\ fn = "_generate_operation_document"
  /\ pc = "done"
  /\ operation.arg_table = <<ARG_OLD_FLAG, ARG_NO_FLAG, ARG_FLAG>>
  /\ Len(ret.document[2]) = 1
  /\ ret.document[2][1][1] = GROUP_FLAG

\* C9: one bad line never invalidates the file: when a line is a record of
\* "aws {service} {operation}" with a non-empty payload and no other line
\* carries that command, get_examples returns that payload whatever the
\* other lines hold (text that is not JSON, JSON that is not an object, an
\* object without `command` or without `examples`).
C9_OneBadLine ==
  (fn = "get_examples" /\ pc = "done" /\ examples_file.exists) =>
    \A i \in stored_at(examples_file, service_name, operation_name) :
      ( /\ truthy(record_examples(examples_file.lines[i]))
        /\ \A j \in 1..Len(examples_file.lines) :
             ( /\ j # i
               /\ json_loads(examples_file.lines[j]).ok
               /\ json_loads(examples_file.lines[j]).val.t = "obj"
               /\ dict_has(json_loads(examples_file.lines[j]).val.v, KEY_COMMAND)
             ) => dict_get(json_loads(examples_file.lines[j]).val.v, KEY_COMMAND).v
                    # record_command(examples_file.lines[i])
      ) => ( /\ ret.kind = "return"
             /\ ret.examples = record_examples(examples_file.lines[i]) )

\* C10: with_api_schema splits the command on whitespace: for a command whose
\* first token is 'aws', the service and the operation it looks up are the
\* 2nd and 3rd whitespace-delimited tokens of the command, also when runs of
\* spaces or tabs separate the tokens.
C10_WhitespaceTokens ==
  ( /\ PastGates
    /\ Len(tokens(cli_command)) >= 3
    /\ tokens(cli_command)[1] = AWS
  ) => ( /\ service_name = tokens(cli_command)[2]
         /\ operation_name = tokens(cli_command)[3] )

====
